---- MODULE Spec2Model ----
(***************************************************************************)
(* A model of Passfort.py: the PasswordAnalyzer class, its analysis        *)
(* pipeline, and the rate-limited, best-effort breach lookup.              *)
(*                                                                         *)
(* Strings are sequences of Unicode code points (ord(c) is the element     *)
(* itself).  The character predicates are those of Python's str methods on *)
(* the modelled code points: Latin-1 (0..255), the Arabic-Indic digits     *)
(* (U+0660..U+0669), the CJK letter U+4E2D and the lone surrogate U+D800.  *)
(***************************************************************************)
EXTENDS Integers, Sequences, FiniteSets, TLC

(***************************************************************************)
(* Bounds of the model.                                                    *)
(***************************************************************************)
\* Enumerated passwords are all strings over Alphabet of at most this length.
MaxLen == 3
\* The clock runs from 0 to MaxTime (seconds).
MaxTime == 4

(***************************************************************************)
(* Characters: the string module's constants and str's predicates.         *)
(***************************************************************************)
ascii_lowercase == 97..122
ascii_uppercase == 65..90
digits == 48..57
punctuation == (33..47) \cup (58..64) \cup (91..96) \cup (123..126)

\* str.isupper / islower / isdigit / isalpha of a single character.
isupper(c) == c \in (65..90) \cup (192..214) \cup (216..222)
islower(c) == c \in (97..122) \cup (223..246) \cup (248..255) \cup {170, 181, 186}
isdigit(c) == c \in (48..57) \cup {178, 179, 185} \cup (1632..1641)
isalpha(c) == isupper(c) \/ islower(c) \/ c = 20013
\* the regex class \d on str patterns: Unicode decimal digits.
isdecimal(c) == c \in (48..57) \cup (1632..1641)

\* str.lower of a single character (every modelled character maps to one).
lower_char(c) == IF isupper(c) THEN c + 32 ELSE c
\* str.lower
lower(s) == [i \in 1..Len(s) |-> lower_char(s[i])]

\* The `in` operator on strings: sub is a contiguous substring of s
\* (the empty string is a substring of every string).
contains(s, sub) ==
    \E i \in 0..(Len(s) - Len(sub)) : SubSeq(s, i + 1, i + Len(sub)) = sub

\* str.count of a single character.
count(s, c) == Cardinality({i \in 1..Len(s) : s[i] = c})

\* str.encode(): UTF-8 cannot encode a lone surrogate (UnicodeEncodeError).
encodable(s) == \A i \in 1..Len(s) : s[i] \notin 55296..57343

(***************************************************************************)
(* The fixed data loaded by __init__.                                      *)
(***************************************************************************)
KeyboardPatterns ==
    <<
      <<113, 119, 101, 114, 116, 121>>,           \* 'qwerty'
      <<97, 115, 100, 102, 103, 104>>,            \* 'asdfgh'
      <<122, 120, 99, 118, 98, 110>>,             \* 'zxcvbn'
      <<113, 97, 122, 119, 115, 120>>,            \* 'qazwsx'
      <<49, 113, 50, 119, 51, 101>>,              \* '1q2w3e'
      <<112, 111, 105, 117, 121, 116>>,           \* 'poiuyt'
      <<108, 107, 106, 104, 103, 102>>,           \* 'lkjhgf'
      <<109, 110, 98, 118, 99, 120>>,             \* 'mnbvcx'
      <<49, 50, 51, 113, 119, 101>>,              \* '123qwe'
      <<122, 97, 113, 49, 50, 119, 115, 120>>     \* 'zaq12wsx'
    >>

_load_common_passwords ==
    {
      <<112, 97, 115, 115, 119, 111, 114, 100>>,   \* 'password'
      <<49, 50, 51, 52, 53, 54>>,   \* '123456'
      <<113, 119, 101, 114, 116, 121>>,   \* 'qwerty'
      <<97, 100, 109, 105, 110>>,   \* 'admin'
      <<108, 101, 116, 109, 101, 105, 110>>,   \* 'letmein'
      <<119, 101, 108, 99, 111, 109, 101>>,   \* 'welcome'
      <<109, 111, 110, 107, 101, 121>>,   \* 'monkey'
      <<102, 111, 111, 116, 98, 97, 108, 108>>,   \* 'football'
      <<97, 98, 99, 49, 50, 51>>,   \* 'abc123'
      <<112, 97, 115, 115, 119, 111, 114, 100, 49>>,   \* 'password1'
      <<49, 50, 51, 52, 53, 54, 55, 56>>,   \* '12345678'
      <<49, 49, 49, 49, 49, 49>>,   \* '111111'
      <<49, 50, 51, 49, 50, 51>>,   \* '123123'
      <<97, 100, 109, 105, 110, 49, 50, 51>>,   \* 'admin123'
      <<109, 97, 115, 116, 101, 114>>,   \* 'master'
      <<115, 117, 110, 115, 104, 105, 110, 101>>,   \* 'sunshine'
      <<112, 114, 105, 110, 99, 101, 115, 115>>,   \* 'princess'
      <<100, 114, 97, 103, 111, 110>>,   \* 'dragon'
      <<112, 97, 115, 115, 119, 48, 114, 100>>,   \* 'passw0rd'
      <<98, 97, 115, 101, 98, 97, 108, 108>>,   \* 'baseball'
      <<116, 114, 117, 115, 116, 110, 111, 49>>,   \* 'trustno1'
      <<115, 104, 97, 100, 111, 119>>,   \* 'shadow'
      <<109, 105, 99, 104, 97, 101, 108>>,   \* 'michael'
      <<106, 101, 110, 110, 105, 102, 101, 114>>,   \* 'jennifer'
      <<115, 117, 112, 101, 114, 109, 97, 110>>,   \* 'superman'
      <<49, 50, 51, 52, 53, 54, 55, 56, 57>>,   \* '123456789'
      <<113, 97, 122, 119, 115, 120>>,   \* 'qazwsx'
      <<107, 105, 108, 108, 101, 114>>,   \* 'killer'
      <<98, 97, 105, 108, 101, 121>>,   \* 'bailey'
      <<112, 97, 115, 115, 119, 111, 114, 100, 49, 50, 51>>   \* 'password123'
    }

\* PasswordAnalyzer.__init__: the fields of a freshly constructed analyzer.
NewAnalyzer ==
    [ common_passwords  |-> _load_common_passwords,
      char_sets         |-> << ascii_lowercase, ascii_uppercase, digits, punctuation >>,
      keyboard_patterns |-> KeyboardPatterns,
      last_api_call     |-> 0 ]

(***************************************************************************)
(* Pattern detectors.                                                      *)
(***************************************************************************)
_check_keyboard_patterns(self, password) ==
    LET pwd_lower == lower(password)
    IN  \E k \in 1..Len(self.keyboard_patterns) :
            contains(pwd_lower, self.keyboard_patterns[k])

\* The three regular expressions, as sequences of character classes:
\* "d" is \d, "s" is [/-].  The last pattern ends in \d{2,4}; re.search only
\* asks whether a match exists, and one exists iff one with two digits does.
date_patterns ==
    << <<"d", "d", "d", "d">>,
       <<"d", "d", "s", "d", "d">>,
       <<"d", "d", "s", "d", "d", "s", "d", "d">> >>

class_matches(cls, c) ==
    IF cls = "d" THEN isdecimal(c) ELSE c \in {47, 45}

\* re.search(pattern, s) is not None
re_search(pattern, s) ==
    \E i \in 0..(Len(s) - Len(pattern)) :
        \A j \in 1..Len(pattern) : class_matches(pattern[j], s[i + j])

_check_date_patterns(password) ==
    \E k \in 1..Len(date_patterns) : re_search(date_patterns[k], password)

_check_repeated_chars(password) ==
    \E c \in {password[i] : i \in 1..Len(password)} : count(password, c) >= 4

_check_sequences(password) ==
    \E i \in 1..(Len(password) - 2) :
        /\ password[i + 1] = password[i] + 1
        /\ password[i + 2] = password[i + 1] + 1

common_subs ==
    << <<64, 97>>, <<48, 111>>, <<49, 108>>, <<33, 105>>, <<51, 101>>,
       <<36, 115>>, <<55, 116>>, <<52, 97>>, <<57, 103>>, <<56, 98>> >>

common_words ==
    {
      <<112, 97, 115, 115, 119, 111, 114, 100>>,   \* 'password'
      <<97, 100, 109, 105, 110>>,   \* 'admin'
      <<117, 115, 101, 114>>,   \* 'user'
      <<108, 111, 103, 105, 110>>,   \* 'login'
      <<115, 101, 99, 114, 101, 116>>,   \* 'secret'
      <<97, 99, 99, 111, 117, 110, 116>>,   \* 'account'
      <<108, 111, 118, 101>>,   \* 'love'
      <<119, 111, 114, 107>>,   \* 'work'
      <<104, 111, 109, 101>>,   \* 'home'
      <<102, 97, 109, 105, 108, 121>>   \* 'family'
    }

\* str.replace(sub, char) for one-character sub and char.
replace(s, sub, char) == [i \in 1..Len(s) |-> IF s[i] = sub THEN char ELSE s[i]]

\* The loop over common_subs.items(): the first k substitutions, in order.
RECURSIVE apply_subs(_, _)
apply_subs(s, k) ==
    IF k = 0 THEN s
    ELSE replace(apply_subs(s, k - 1), common_subs[k][1], common_subs[k][2])

_has_dictionary_patterns(password) ==
    LET normalized == apply_subs(lower(password), Len(common_subs))
    IN  \E word \in common_words : contains(normalized, word)

(***************************************************************************)
(* Character transitions.  The float ratio transitions / (len - 1) is kept *)
(* as the exact fraction [num, den]; the length < 2 case returns 1.0.      *)
(***************************************************************************)
\* The loop body without its first branch (the case comparison of two letters).
is_transition_without_case(a, b) ==
    IF isdigit(a) # isdigit(b)
    THEN TRUE
    ELSE (a \in punctuation) # (b \in punctuation)

is_transition(a, b) ==
    IF isalpha(a) /\ isalpha(b)
    THEN isupper(a) # isupper(b)
    ELSE IF isdigit(a) # isdigit(b)
    THEN TRUE
    ELSE (a \in punctuation) # (b \in punctuation)

_analyze_char_transitions(password) ==
    IF Len(password) < 2
    THEN [num |-> 1, den |-> 1]
    ELSE [num |-> Cardinality({i \in 1..(Len(password) - 1) :
                                  is_transition(password[i], password[i + 1])}),
          den |-> Len(password) - 1]

(***************************************************************************)
(* Entropy.  math.log2 of the pool sizes the four character sets can sum   *)
(* to, in thousandths of a bit (truncated); entropy is len * log2(pool).   *)
(***************************************************************************)
log2_milli(p) ==
    CASE p = 10 -> 3321
      [] p = 26 -> 4700
      [] p = 32 -> 5000
      [] p = 36 -> 5169
      [] p = 42 -> 5392
      [] p = 52 -> 5700
      [] p = 58 -> 5857
      [] p = 62 -> 5954
      [] p = 68 -> 6087
      [] p = 84 -> 6392
      [] p = 94 -> 6554

RECURSIVE pool_sum(_, _, _)
pool_sum(char_sets, password, k) ==
    IF k = 0 THEN 0
    ELSE pool_sum(char_sets, password, k - 1)
         + (IF \E i \in 1..Len(password) : password[i] \in char_sets[k]
            THEN Cardinality(char_sets[k]) ELSE 0)

char_pool(self, password) == pool_sum(self.char_sets, password, Len(self.char_sets))

_calculate_entropy(self, password) ==
    LET pool == char_pool(self, password)
    IN  IF pool # 0 THEN Len(password) * log2_milli(pool) ELSE 0

(***************************************************************************)
(* Metrics, weaknesses, score and recommendations.                         *)
(***************************************************************************)
_evaluate_strength(self, password) ==
    [ length                |-> Len(password),
      has_uppercase         |-> \E i \in 1..Len(password) : isupper(password[i]),
      has_lowercase         |-> \E i \in 1..Len(password) : islower(password[i]),
      has_digits            |-> \E i \in 1..Len(password) : isdigit(password[i]),
      has_special           |-> \E i \in 1..Len(password) : password[i] \in punctuation,
      repeated_chars        |-> _check_repeated_chars(password),
      sequential_chars      |-> _check_sequences(password),
      keyboard_pattern      |-> _check_keyboard_patterns(self, password),
      character_transitions |-> _analyze_char_transitions(password) ]

MsgCommon     == "Password is in common password list"
MsgKeyboard   == "Contains keyboard pattern sequences"
MsgUsername   == "Password contains username"
MsgDictionary == "Contains predictable dictionary patterns"
MsgDate       == "Contains date-like patterns"

\* _detect_weaknesses with `if username.lower() in pwd_lower` (no `username and`).
detect_without_username_guard(self, password, username) ==
    LET pwd_lower == lower(password)
        w0 == << >>
        w1 == IF pwd_lower \in self.common_passwords
              THEN Append(w0, MsgCommon) ELSE w0
        w2 == IF _check_keyboard_patterns(self, password)
              THEN Append(w1, MsgKeyboard) ELSE w1
        w3 == IF contains(pwd_lower, lower(username))
              THEN Append(w2, MsgUsername) ELSE w2
        w4 == IF _has_dictionary_patterns(password)
              THEN Append(w3, MsgDictionary) ELSE w3
        w5 == IF _check_date_patterns(password)
              THEN Append(w4, MsgDate) ELSE w4
    IN  w5

\* _detect_weaknesses with its own keyboard check on the password as typed
\* (not lower-cased), so that it can disagree with the metric.
detect_with_own_keyboard_check(self, password, username) ==
    LET pwd_lower == lower(password)
        w0 == << >>
        w1 == IF pwd_lower \in self.common_passwords
              THEN Append(w0, MsgCommon) ELSE w0
        w2 == IF \E k \in 1..Len(self.keyboard_patterns) :
                     contains(password, self.keyboard_patterns[k])
              THEN Append(w1, MsgKeyboard) ELSE w1
        w3 == IF username # << >> /\ contains(pwd_lower, lower(username))
              THEN Append(w2, MsgUsername) ELSE w2
        w4 == IF _has_dictionary_patterns(password)
              THEN Append(w3, MsgDictionary) ELSE w3
        w5 == IF _check_date_patterns(password)
              THEN Append(w4, MsgDate) ELSE w4
    IN  w5

_detect_weaknesses(self, password, username) ==
    LET pwd_lower == lower(password)
        w0 == << >>
        w1 == IF pwd_lower \in self.common_passwords
              THEN Append(w0, MsgCommon) ELSE w0
        w2 == IF _check_keyboard_patterns(self, password)
              THEN Append(w1, MsgKeyboard) ELSE w1
        w3 == IF username # << >> /\ contains(pwd_lower, lower(username))
              THEN Append(w2, MsgUsername) ELSE w2
        w4 == IF _has_dictionary_patterns(password)
              THEN Append(w3, MsgDictionary) ELSE w3
        w5 == IF _check_date_patterns(password)
              THEN Append(w4, MsgDate) ELSE w4
    IN  w5

min(a, b) == IF a <= b THEN a ELSE b
max(a, b) == IF a >= b THEN a ELSE b

\* The running sum with a penalty of 20 per weakness instead of a flat 20.
raw_score_per_weakness(analysis) ==
    LET metrics == analysis.metrics
        s0  == min(metrics.length * 4, 40)
        s1  == IF metrics.has_uppercase THEN s0 + 10 ELSE s0
        s2  == IF metrics.has_lowercase THEN s1 + 10 ELSE s1
        s3  == IF metrics.has_digits THEN s2 + 10 ELSE s2
        s4  == IF metrics.has_special THEN s3 + 10 ELSE s3
        s5  == s4 + ((metrics.character_transitions.num * 10)
                        \div metrics.character_transitions.den)
        s6  == IF metrics.repeated_chars THEN s5 - 15 ELSE s5
        s7  == IF metrics.sequential_chars THEN s6 - 15 ELSE s6
        s8  == IF metrics.keyboard_pattern THEN s7 - 20 ELSE s7
        s9  == s8 - 20 * Len(analysis.weaknesses)
        s10 == IF metrics.breached THEN s9 - 30 ELSE s9
    IN  s10

\* The running sum of _calculate_strength_score just before the final clamp.
raw_score(analysis) ==
    LET metrics == analysis.metrics
        s0  == min(metrics.length * 4, 40)
        s1  == IF metrics.has_uppercase THEN s0 + 10 ELSE s0
        s2  == IF metrics.has_lowercase THEN s1 + 10 ELSE s1
        s3  == IF metrics.has_digits THEN s2 + 10 ELSE s2
        s4  == IF metrics.has_special THEN s3 + 10 ELSE s3
        \* int(ratio * 10): truncation of a non-negative value
        s5  == s4 + ((metrics.character_transitions.num * 10)
                        \div metrics.character_transitions.den)
        s6  == IF metrics.repeated_chars THEN s5 - 15 ELSE s5
        s7  == IF metrics.sequential_chars THEN s6 - 15 ELSE s6
        s8  == IF metrics.keyboard_pattern THEN s7 - 20 ELSE s7
        s9  == IF analysis.weaknesses # << >> THEN s8 - 20 ELSE s8
        s10 == IF metrics.breached THEN s9 - 30 ELSE s9
    IN  s10

\* The final line as `return min(100, score)`, without the lower clamp.
score_without_floor(analysis) == min(100, raw_score(analysis))

_calculate_strength_score(analysis) == max(0, min(100, raw_score(analysis)))

RecStronger   == "Use a stronger password with more complexity"
RecLength     == "Increase password length to at least 12 characters"
RecMix        == "Mix uppercase, lowercase, numbers, and special characters"
RecBreach     == "This password was found in a breach - change it immediately"
RecKeyboard   == "Avoid keyboard patterns (e.g., qwerty, asdf)"
RecPassphrase == "Consider using a unique passphrase (e.g., 'CorrectHorseBatteryStaple')"

_generate_recommendations(analysis) ==
    LET metrics == analysis.metrics
        r0 == << >>
        r1 == IF analysis.strength_score < 60 THEN Append(r0, RecStronger) ELSE r0
        r2 == IF metrics.length < 12 THEN Append(r1, RecLength) ELSE r1
        r3 == IF ~(metrics.has_uppercase /\ metrics.has_lowercase
                   /\ metrics.has_digits /\ metrics.has_special)
              THEN Append(r2, RecMix) ELSE r2
        r4 == IF metrics.breached THEN Append(r3, RecBreach) ELSE r3
        r5 == IF metrics.keyboard_pattern THEN Append(r4, RecKeyboard) ELSE r4
    IN  Append(r5, RecPassphrase)

\* _suggest_strong_passwords draws every character from the secrets module.
\* A draw of the random source is one of these outcomes; each suggestion is
\* tagged with its position and the draw that produced it.
SecretsDraws == {"draw_a", "draw_b"}
_suggest_strong_passwords(draw) ==
    << <<"random16", draw>>, <<"passphrase", draw>>, <<"complex", draw>> >>

\* The dict analyze_password starts from.
EmptyAnalysis ==
    [ strength_score      |-> 0,
      entropy             |-> 0,
      weaknesses          |-> << >>,
      recommendations     |-> << >>,
      metrics             |-> << >>,
      suggested_passwords |-> << >> ]

\* Lines 79-81 of analyze_password: everything computed before the lookup.
local_analysis(self, password, username) ==
    [ EmptyAnalysis EXCEPT
        !.metrics    = _evaluate_strength(self, password),
        !.weaknesses = _detect_weaknesses(self, password, username),
        !.entropy    = _calculate_entropy(self, password) ]

\* metrics['breached'] = ...: adds the key to the metrics dict.
with_breached(metrics, breached) ==
    [k \in DOMAIN metrics \cup {"breached"} |->
        IF k = "breached" THEN breached ELSE metrics[k]]

\* Lines 82-86 of analyze_password, given the lookup's answer.
finish_analysis(a, breached, draw) ==
    LET a1 == [a EXCEPT !.metrics = with_breached(a.metrics, breached)]
        a2 == [a1 EXCEPT !.strength_score = _calculate_strength_score(a1)]
        a3 == [a2 EXCEPT !.recommendations = _generate_recommendations(a2)]
    IN  [a3 EXCEPT !.suggested_passwords = _suggest_strong_passwords(draw)]

(***************************************************************************)
(* The breach lookup, _check_hibp_breach.                                  *)
(*                                                                         *)
(* The SHA-1 digest is not computed: a line of the response body is the    *)
(* sequence of its ':'-separated fields, and the field "SUFFIX" stands for *)
(* the 35 hex characters that follow the prefix in this password's digest. *)
(***************************************************************************)
\* What requests.get does: raise, or return a response.
ResponseBodies ==
    { << <<"OTHER", "1">> >>,                        \* other suffixes only
      << <<"OTHER", "1">>, <<"SUFFIX", "3">> >>,     \* this password's suffix
      << <<"<html>">> >> }                           \* not the SUFFIX:COUNT format
Responses ==
    { [kind |-> "ConnectionError"] }
    \cup { [kind |-> "response", status_code |-> 200, lines |-> b] : b \in ResponseBodies }
    \cup { [kind |-> "response", status_code |-> 429, lines |-> << <<"OTHER", "1">>, <<"SUFFIX", "3">> >>] }
\* The remote service answers a request, or never does; requests.get is
\* called without a timeout argument, so it then never returns.
Answering == [kind |-> "answering"]
Silent == [kind |-> "silent"]

\* The body of the try block: the exception it raises ("" for none) and the
\* value it returns.
try_block(password, response) ==
    IF ~encodable(password)
    THEN [exc |-> "UnicodeEncodeError", ret |-> FALSE]
    ELSE IF response.kind # "response"
    THEN [exc |-> response.kind, ret |-> FALSE]
    ELSE IF response.status_code = 200
    THEN [exc |-> "",
          ret |-> \E k \in 1..Len(response.lines) : response.lines[k][1] = "SUFFIX"]
    ELSE [exc |-> "", ret |-> FALSE]

\* The exceptions `except Exception` catches: every one the block can raise.
ExceptionSubclasses == {"UnicodeEncodeError", "ConnectionError"}

\* The function's body with `except requests.RequestException` in place of
\* `except Exception`: an encoding error is no longer caught.
hibp_body_catching_request_errors(password, response) ==
    LET r == try_block(password, response)
    IN  IF r.exc = "" THEN [raised |-> FALSE, ret |-> r.ret]
        ELSE IF r.exc \in {"ConnectionError"} THEN [raised |-> FALSE, ret |-> FALSE]
        ELSE [raised |-> TRUE, ret |-> FALSE]

\* The decorated function's body: what it returns, and whether it raises.
hibp_body(password, response) ==
    LET r == try_block(password, response)
    IN  IF r.exc = "" THEN [raised |-> FALSE, ret |-> r.ret]
        ELSE IF r.exc \in ExceptionSubclasses THEN [raised |-> FALSE, ret |-> FALSE]
        ELSE [raised |-> TRUE, ret |-> FALSE]

(***************************************************************************)
(* The rate limiter: @sleep_and_retry @limits(calls=1, period=2), applied  *)
(* once, when the class is defined, so its counters are shared by every    *)
(* analyzer of the process.  The decorators come from the ratelimit        *)
(* package: a fixed window that starts at last_reset; a call beyond the    *)
(* quota raises RateLimitException(period_remaining), which                *)
(* sleep_and_retry answers with time.sleep(period_remaining) and a retry.  *)
(***************************************************************************)
Calls == 1
Period == 2

\* limits' wrapper with the attempt not counted: nothing is ever refused.
limits_wrapper_not_counting(limiter, t) ==
    LET period_remaining == Period - (t - limiter.last_reset)
        l1 == IF period_remaining <= 0
              THEN [num_calls |-> 0, last_reset |-> t]
              ELSE limiter
    IN  [ limiter          |-> l1,
          refused          |-> l1.num_calls > Calls,
          period_remaining |-> period_remaining ]

\* limits' wrapper at clock value t: the counters after the attempt, whether
\* the attempt is refused, and the time left in the window.
limits_wrapper(limiter, t) ==
    LET period_remaining == Period - (t - limiter.last_reset)
        l1 == IF period_remaining <= 0
              THEN [num_calls |-> 0, last_reset |-> t]
              ELSE limiter
        l2 == [l1 EXCEPT !.num_calls = @ + 1]
    IN  [ limiter          |-> l2,
          refused          |-> l2.num_calls > Calls,
          period_remaining |-> period_remaining ]

(***************************************************************************)
(* State.                                                                  *)
(***************************************************************************)
VARIABLES
    analyzers,   \* the fields of each PasswordAnalyzer instance
    limiter,     \* the rate limiter's counters (one per process)
    now,         \* the clock, in seconds
    pc,          \* where the current analyze_password call stands
    call,        \* the current call: analyzer, password, username
    analysis,    \* the dict the current call is building / has returned
    wake,        \* when the sleeping call's time.sleep ends
    remote,      \* what the breach service does with the current request
    queries,     \* the last two requests sent: time and limiter window
    prev         \* an earlier completed call, kept for comparison

vars == << analyzers, limiter, now, pc, call, analysis, wake, remote, queries, prev >>

\* The analyzer instances of the process.
Instances == {"analyzer1", "analyzer2"}

(***************************************************************************)
(* Inputs.                                                                 *)
(***************************************************************************)
\* 'a' 'b' 'A' '1' '!' ' ' and U+00E9 (a non-ASCII lowercase letter)
Alphabet == {97, 98, 65, 49, 33, 32, 233}
Strings(n) == UNION {[1..k -> Alphabet] : k \in 0..n}

Samples ==
    {
      <<113, 119, 101, 114, 116, 121>>,   \* 'qwerty'
      <<112, 97, 115, 115, 119, 111, 114, 100>>,   \* 'password'
      <<65, 97, 49, 33>>,   \* 'Aa1!'
      <<97, 97, 97, 97>>,   \* 'aaaa'
      <<97, 98, 99, 49, 50, 51>>,   \* 'abc123'
      <<106, 111, 104, 110, 83, 109, 105, 116, 104, 57, 57>>,   \* 'johnSmith99'
      <<113, 119, 101, 114, 116, 121, 49, 50, 51>>,   \* 'qwerty123'
      <<65, 100, 109, 105, 110, 49, 50, 51, 52, 33>>,   \* 'Admin1234!'
      <<112, 64, 36, 36, 119, 48, 114, 100>>,   \* 'p@$$w0rd'
      <<49, 50, 47, 50, 53>>,   \* '12/25'
      <<81, 87, 69, 82, 84, 89>>,   \* 'QWERTY'
      <<81, 97, 122, 119, 115, 120, 50, 48, 50, 48>>,   \* 'Qazwsx2020'
      <<117, 36, 51, 114>>,   \* 'u$3r'
      <<84, 114, 48, 117, 98, 52, 100, 111, 114, 38, 51, 120>>,   \* 'Tr0ub4dor&3x'
      <<201, 1635, 20013>>,   \* U+00C9 U+0663 U+4E2D: upper-case letter, digit, letter
      <<97, 233>>,   \* 'a' U+00E9
      <<49, 49, 45, 49, 49, 45, 49, 49>>,   \* '11-11-11'
      <<80, 97, 115, 115, 119, 111, 114, 100, 49, 50, 51>>,   \* 'Password123'
      <<55296>>   \* a lone surrogate, which str.encode() rejects
    }
Passwords == Strings(MaxLen) \cup Samples

Usernames ==
    {
      <<>>,   \* ''
      <<106, 111, 104, 110>>,   \* 'john'
      <<97>>,   \* 'a'
      <<65, 68, 77, 73, 78>>   \* 'ADMIN'
    }

NoCall == [inst |-> "none", password |-> << >>, username |-> << >>]
NoQuery == [t |-> -1, window |-> -1]
NoPrev == [used |-> FALSE]

NoRemote == [kind |-> "none"]

\* Analysis dicts as _calculate_strength_score may be handed them: any
\* combination of metrics, weaknesses and breach status.
AnalysisDicts ==
    { [ EmptyAnalysis EXCEPT !.metrics = m, !.weaknesses = w ] :
        m \in [ length                : {0, 5, 10, 11},
                has_uppercase         : BOOLEAN,
                has_lowercase         : BOOLEAN,
                has_digits            : BOOLEAN,
                has_special           : BOOLEAN,
                repeated_chars        : BOOLEAN,
                sequential_chars      : BOOLEAN,
                keyboard_pattern      : BOOLEAN,
                character_transitions : { [num |-> 0, den |-> 1], [num |-> 1, den |-> 3],
                                          [num |-> 1, den |-> 1] },
                breached              : BOOLEAN ],
        w \in { << >>, << MsgDate >>,
                << MsgCommon, MsgKeyboard, MsgUsername, MsgDictionary, MsgDate >> } }

(***************************************************************************)
(* Spec: one analyze_password call on arbitrary input, the lookup replaced *)
(* by a stub that returns a fixed answer; or one _calculate_strength_score *)
(* call on an arbitrary analysis dict.                                     *)
(***************************************************************************)
Init ==
    /\ analyzers = [i \in Instances |-> NewAnalyzer]
    /\ limiter = [num_calls |-> 0, last_reset |-> 0]
    /\ now = 0
    /\ wake = 0
    /\ queries = << NoQuery, NoQuery >>
    /\ prev = NoPrev
    /\ \/ /\ pc = "start"
          /\ call \in [inst : Instances, password : Passwords, username : Usernames]
          /\ analysis = EmptyAnalysis
          /\ remote \in {[kind |-> "stub", ret |-> b] : b \in BOOLEAN}
       \/ /\ pc = "score"
          /\ call = NoCall
          /\ analysis \in AnalysisDicts
          /\ remote = NoRemote

\* analyze_password with _check_hibp_breach stubbed.
Analyze(draw) ==
    /\ pc = "start"
    /\ analysis' = finish_analysis(
                       local_analysis(analyzers[call.inst], call.password, call.username),
                       remote.ret, draw)
    /\ pc' = "done"
    /\ UNCHANGED << analyzers, limiter, now, call, wake, remote, queries, prev >>

\* analysis['strength_score'] = self._calculate_strength_score(analysis)
Score ==
    /\ pc = "score"
    /\ analysis' = [analysis EXCEPT !.strength_score = _calculate_strength_score(analysis)]
    /\ pc' = "scored"
    /\ UNCHANGED << analyzers, limiter, now, call, wake, remote, queries, prev >>

Next ==
    \/ \E draw \in SecretsDraws : Analyze(draw)
    \/ Score

Spec == Init /\ [][Next]_vars

(***************************************************************************)
(* SpecCalls: a process that makes analyze_password calls one after the    *)
(* other (the program is single-threaded) on its analyzers, through the    *)
(* rate limiter and the network, while the clock advances.                 *)
(***************************************************************************)
CallPasswords ==
    { <<113, 119, 101, 114, 116, 121>>,   \* 'qwerty'
      <<65, 97, 49, 33>>,                 \* 'Aa1!'
      <<55296>> }                         \* a lone surrogate
CallUsernames == { <<>>, <<97>> }         \* '' and 'a'

InitCalls ==
    /\ analyzers = [i \in Instances |-> NewAnalyzer]
    \* the decorator object is created when the class is defined: clock 0
    /\ limiter = [num_calls |-> 0, last_reset |-> 0]
    /\ now = 0
    /\ pc = "idle"
    /\ call = NoCall
    /\ analysis = EmptyAnalysis
    /\ wake = 0
    /\ remote = NoRemote
    /\ queries = << NoQuery, NoQuery >>
    /\ prev = NoPrev

\* The decorated _check_hibp_breach is entered at the current clock value:
\* the limiter admits or refuses the attempt; an admitted attempt runs the
\* function body, which either fails before any request (the password
\* cannot be encoded) or sends the request.  `service` is what the remote
\* service will do with the request (Answering or Silent), `draw` the random
\* source's outcome.
Enter(c, a, service, draw) ==
    LET r == limits_wrapper(limiter, now)
    IN  /\ limiter' = r.limiter
        /\ IF r.refused
           THEN /\ pc' = "sleeping"
                /\ wake' = now + r.period_remaining
                /\ analysis' = a
                /\ UNCHANGED << remote, queries >>
           ELSE IF ~encodable(c.password)
           THEN LET h == hibp_body(c.password, NoRemote)
                IN  /\ pc' = IF h.raised THEN "raised" ELSE "done"
                    /\ analysis' = IF h.raised THEN a ELSE finish_analysis(a, h.ret, draw)
                    /\ remote' = NoRemote
                    /\ UNCHANGED << wake, queries >>
           ELSE /\ pc' = "request"
                /\ analysis' = a
                /\ remote' = service
                /\ queries' = << queries[2], [t |-> now, window |-> r.limiter.last_reset] >>
                /\ UNCHANGED wake

\* analyze_password that also adds the analysed password to the analyzer's
\* common-password set.
Call_remembering_password(i, password, username, service, draw) ==
    /\ pc = "idle"
    /\ now + Period <= MaxTime
    /\ LET c == [inst |-> i, password |-> password, username |-> username]
       IN  /\ call' = c
           /\ Enter(c, local_analysis(analyzers[i], password, username), service, draw)
    /\ analyzers' = [analyzers EXCEPT
                        ![i].common_passwords = @ \cup {lower(password)}]
    /\ UNCHANGED << now, prev >>

\* analyze_password(password, username) is called on analyzer i: lines 71-81,
\* then the call of the decorated _check_hibp_breach.
Call(i, password, username, service, draw) ==
    /\ pc = "idle"
    /\ now + Period <= MaxTime
    /\ LET c == [inst |-> i, password |-> password, username |-> username]
       IN  /\ call' = c
           /\ Enter(c, local_analysis(analyzers[i], password, username), service, draw)
    /\ UNCHANGED << analyzers, now, prev >>

\* time.sleep(period_remaining) is over: sleep_and_retry calls again.
Wake(service, draw) ==
    /\ pc = "sleeping"
    /\ now >= wake
    /\ Enter(call, analysis, service, draw)
    /\ UNCHANGED << analyzers, now, call, prev >>

\* requests.get returns or raises; the rest of _check_hibp_breach and of
\* analyze_password (lines 61-68 and 82-86) runs.
Respond(response, draw) ==
    /\ pc = "request"
    /\ remote = Answering
    /\ remote' = response
    /\ LET h == hibp_body(call.password, response)
       IN  /\ pc' = IF h.raised THEN "raised" ELSE "done"
           /\ analysis' = IF h.raised THEN analysis ELSE finish_analysis(analysis, h.ret, draw)
    /\ UNCHANGED << analyzers, limiter, now, call, wake, queries, prev >>

\* The caller has the result; the next call may begin.  `keep` only decides
\* whether this call is the one remembered for comparison.
Return(keep) ==
    /\ pc = "done"
    /\ pc' = "idle"
    /\ prev' = IF keep
               THEN [used |-> TRUE, inst |-> call.inst, password |-> call.password,
                     username |-> call.username, result |-> analysis]
               ELSE prev
    /\ call' = NoCall
    /\ analysis' = EmptyAnalysis
    /\ remote' = NoRemote
    /\ UNCHANGED << analyzers, limiter, now, wake, queries >>

Tick ==
    /\ now < MaxTime
    /\ now' = now + 1
    /\ UNCHANGED << analyzers, limiter, pc, call, analysis, wake, remote, queries, prev >>

NextCalls ==
    \/ \E i \in Instances, password \in CallPasswords, username \in CallUsernames,
          service \in {Answering, Silent}, draw \in SecretsDraws :
              Call(i, password, username, service, draw)
    \/ \E service \in {Answering, Silent}, draw \in SecretsDraws : Wake(service, draw)
    \/ \E response \in Responses, draw \in SecretsDraws : Respond(response, draw)
    \/ \E keep \in BOOLEAN : Return(keep)
    \/ Tick

SpecCalls == InitCalls /\ [][NextCalls]_vars

\* The same process when every call analyses 'Aa1!' with no username and no
\* call is remembered for comparison.  A step that can be taken is taken:
\* the clock advances, a sleep ends, a service drawn as answering answers,
\* a finished call returns.  (Whether another call is made is up to the
\* caller.)
NextOnePassword ==
    \/ \E i \in Instances, service \in {Answering, Silent}, draw \in SecretsDraws :
              Call(i, <<65, 97, 49, 33>>, << >>, service, draw)
    \/ \E service \in {Answering, Silent}, draw \in SecretsDraws : Wake(service, draw)
    \/ \E response \in Responses, draw \in SecretsDraws : Respond(response, draw)
    \/ Return(FALSE)
    \/ Tick

FairSpec ==
    /\ InitCalls
    /\ [][NextOnePassword]_vars
    /\ WF_vars(Tick)
    /\ WF_vars(\E service \in {Answering, Silent}, draw \in SecretsDraws : Wake(service, draw))
    /\ WF_vars(\E response \in Responses, draw \in SecretsDraws : Respond(response, draw))
    /\ WF_vars(Return(FALSE))

(***************************************************************************)
(* Properties of one analysis (specification Spec).                        *)
(***************************************************************************)
Done == pc = "done"
Range(seq) == {seq[i] : i \in 1..Len(seq)}
B2I(b) == IF b THEN 1 ELSE 0
Clamp(x, lo, hi) == IF x < lo THEN lo ELSE IF x > hi THEN hi ELSE x
HasChar(s, set) == \E i \in 1..Len(s) : s[i] \in set

\* C1: for every password and username (the empty password included) and
\* either answer of the breach oracle, strength_score is an integer in
\* 0..100 and entropy is at least 0.
C1_ScoreAndEntropyInRange ==
    Done => /\ analysis.strength_score \in 0..100
            /\ analysis.entropy >= 0

\* A returned analysis whose running sum was negative: the clamp acted.
C1_Witness ==
    /\ Done
    /\ raw_score(analysis) < 0
    /\ analysis.strength_score = 0

\* The formula of the score, in closed form.
ClosedFormScore(a) ==
    Clamp( min(4 * a.metrics.length, 40)
           + 10 * ( B2I(a.metrics.has_uppercase) + B2I(a.metrics.has_lowercase)
                    + B2I(a.metrics.has_digits) + B2I(a.metrics.has_special) )
           + ((10 * a.metrics.character_transitions.num)
                 \div a.metrics.character_transitions.den)
           - 15 * B2I(a.metrics.repeated_chars)
           - 15 * B2I(a.metrics.sequential_chars)
           - 20 * B2I(a.metrics.keyboard_pattern)
           - 20 * B2I(a.weaknesses # << >>)
           - 30 * B2I(a.metrics.breached),
           0, 100 )

\* C2: strength_score equals clamp(min(4*length, 40) + 10 per class flag
\* + floor(10*character_transitions) - 15 if repeated_chars - 15 if
\* sequential_chars - 20 if keyboard_pattern - 20 if weaknesses is non-empty
\* - 30 if breached, 0, 100); the weakness penalty is a flat 20 whatever the
\* number of weaknesses.
C2_ScoreFormula ==
    (Done \/ pc = "scored") => analysis.strength_score = ClosedFormScore(analysis)

\* A breached dict with five weaknesses and the keyboard penalty whose score
\* is still positive: a penalty per weakness would have given 0.
C2_Witness ==
    /\ pc = "scored"
    /\ Len(analysis.weaknesses) = 5
    /\ analysis.metrics.keyboard_pattern /\ analysis.metrics.breached
    /\ analysis.strength_score > 0

\* C7: each of has_lowercase, has_uppercase, has_digits, has_special is true
\* iff the password holds a character of the ASCII lowercase, ASCII
\* uppercase, ASCII digit, ASCII punctuation set; other characters set no
\* flag; the flags name exactly the classes counted in the entropy pool.
C7_FlagsAreAsciiClasses ==
    Done =>
        /\ analysis.metrics.has_lowercase = HasChar(call.password, ascii_lowercase)
        /\ analysis.metrics.has_uppercase = HasChar(call.password, ascii_uppercase)
        /\ analysis.metrics.has_digits = HasChar(call.password, digits)
        /\ analysis.metrics.has_special = HasChar(call.password, punctuation)
        /\ char_pool(analyzers[call.inst], call.password)
             = 26 * B2I(analysis.metrics.has_lowercase)
               + 26 * B2I(analysis.metrics.has_uppercase)
               + 10 * B2I(analysis.metrics.has_digits)
               + 32 * B2I(analysis.metrics.has_special)

\* The five findings in orchestration order, each with its detector.
Finding(k, a, password, username) ==
    CASE k = 1 -> [msg |-> MsgCommon, on |-> lower(password) \in a.common_passwords]
      [] k = 2 -> [msg |-> MsgKeyboard, on |-> _check_keyboard_patterns(a, password)]
      [] k = 3 -> [msg |-> MsgUsername,
                   on |-> username # << >> /\ contains(lower(password), lower(username))]
      [] k = 4 -> [msg |-> MsgDictionary, on |-> _has_dictionary_patterns(password)]
      [] k = 5 -> [msg |-> MsgDate, on |-> _check_date_patterns(password)]

\* C8: weaknesses is exactly the sub-sequence of the five fixed messages, in
\* the order common-password, keyboard-pattern, username, dictionary, date,
\* whose detector is true: each once, none twice, at most five, and an empty
\* username never gives the username finding.
C8_WeaknessesAreTheTrueDetectors ==
    Done =>
        LET a  == analyzers[call.inst]
            on == {k \in 1..5 : Finding(k, a, call.password, call.username).on}
            w  == analysis.weaknesses
        IN  /\ Len(w) = Cardinality(on)
            /\ Len(w) <= 5
            /\ \A i, j \in 1..Len(w) : i # j => w[i] # w[j]
            /\ \A k \in on :
                   LET pos == Cardinality({j \in on : j <= k})
                   IN  w[pos] = Finding(k, a, call.password, call.username).msg
            /\ (call.username = << >> => MsgUsername \notin Range(w))

\* Three findings at once, the username finding among them.
C8_Witness ==
    /\ Done
    /\ Len(analysis.weaknesses) >= 3
    /\ MsgUsername \in Range(analysis.weaknesses)

\* The pairs the claim counts.
ClaimedTransition(a, b) ==
    \/ isalpha(a) /\ isalpha(b) /\ isupper(a) # isupper(b)
    \/ isdigit(a) # isdigit(b)
    \/ (a \in punctuation) # (b \in punctuation)

\* C9: character_transitions is 1.0 when length < 2; otherwise T/(length-1),
\* T the number of adjacent pairs that are two letters of differing case, or
\* exactly one digit, or exactly one punctuation character; so
\* 0 <= T <= length-1; it is 1.0 for "Aa1!" and 0.0 for "aaaa".
C9_TransitionRatio ==
    Done =>
        LET p  == call.password
            ct == analysis.metrics.character_transitions
            T  == Cardinality({i \in 1..(Len(p) - 1) : ClaimedTransition(p[i], p[i + 1])})
        IN  /\ Len(p) < 2 => ct.num = ct.den /\ ct.den = 1
            /\ Len(p) >= 2 => /\ ct.den = Len(p) - 1
                              /\ ct.num = T
                              /\ 0 <= ct.num /\ ct.num <= ct.den
            /\ p = <<65, 97, 49, 33>> => ct.num = ct.den
            /\ p = <<97, 97, 97, 97>> => ct.num = 0

\* A password in which some adjacent pairs change class and some do not,
\* one of the changes being a change of case.
C9_Witness ==
    /\ Done
    /\ Len(call.password) >= 3
    /\ analysis.metrics.character_transitions.num > 0
    /\ analysis.metrics.character_transitions.num < analysis.metrics.character_transitions.den
    /\ \E i \in 1..(Len(call.password) - 1) :
           /\ isalpha(call.password[i]) /\ isalpha(call.password[i + 1])
           /\ isupper(call.password[i]) # isupper(call.password[i + 1])

\* C10: metrics.keyboard_pattern is true iff weaknesses holds the
\* keyboard-pattern finding; so when it is true the weaknesses list is
\* non-empty and the score loses 40 before clamping (20 + the flat 20).
C10_KeyboardMetricIffFinding ==
    Done =>
        LET m == analysis.metrics
        IN  /\ m.keyboard_pattern <=> MsgKeyboard \in Range(analysis.weaknesses)
            /\ m.keyboard_pattern =>
                 /\ analysis.weaknesses # << >>
                 /\ raw_score(analysis)
                      = min(4 * m.length, 40)
                        + 10 * ( B2I(m.has_uppercase) + B2I(m.has_lowercase)
                                 + B2I(m.has_digits) + B2I(m.has_special) )
                        + ((10 * m.character_transitions.num) \div m.character_transitions.den)
                        - 15 * B2I(m.repeated_chars) - 15 * B2I(m.sequential_chars)
                        - 30 * B2I(m.breached)
                        - 40

\* A password typed in upper case that walks the keyboard.
C10_Witness ==
    /\ Done
    /\ analysis.metrics.keyboard_pattern
    /\ \E i \in 1..Len(call.password) : isupper(call.password[i])

(***************************************************************************)
(* Properties of sequences of calls (specifications SpecCalls, FairSpec).  *)
(***************************************************************************)
\* C3: after any sequence of earlier calls, on the same or another analyzer,
\* two calls with the same password, username and breach-oracle answer
\* return the same strength_score, entropy, metrics, weaknesses and
\* recommendations (suggested_passwords may differ); no call changes the
\* common-password set or the keyboard-pattern list.
C3_SameInputsSameResult ==
    /\ \A i \in Instances :
           /\ analyzers[i].common_passwords = _load_common_passwords
           /\ analyzers[i].keyboard_patterns = KeyboardPatterns
    /\ ( /\ Done
         /\ prev.used
         /\ prev.password = call.password
         /\ prev.username = call.username
         /\ prev.result.metrics.breached = analysis.metrics.breached )
       => /\ prev.result.strength_score = analysis.strength_score
          /\ prev.result.entropy = analysis.entropy
          /\ prev.result.metrics = analysis.metrics
          /\ prev.result.weaknesses = analysis.weaknesses
          /\ prev.result.recommendations = analysis.recommendations

\* The same input analysed a second time, by the other analyzer, after the
\* limiter's counters have moved; only the suggestions differ.
C3_Witness ==
    /\ Done
    /\ prev.used
    /\ prev.password = call.password
    /\ prev.username = call.username
    /\ prev.result.metrics.breached = analysis.metrics.breached
    /\ prev.inst # call.inst
    /\ prev.result.suggested_passwords # analysis.suggested_passwords
    /\ analysis.weaknesses # << >>
    /\ limiter.last_reset > 0

\* The lookup of the current call failed: the password cannot be encoded,
\* the request raised, the status is not 200, or no line of the body has the
\* SUFFIX:COUNT shape.
LookupFailed ==
    \/ ~encodable(call.password)
    \/ remote.kind = "ConnectionError"
    \/ /\ remote.kind = "response"
       /\ \/ remote.status_code # 200
          \/ \A k \in 1..Len(remote.lines) : Len(remote.lines[k]) # 2

AnalysisKeys ==
    {"strength_score", "entropy", "weaknesses", "recommendations", "metrics",
     "suggested_passwords"}
MetricsKeys ==
    {"length", "has_uppercase", "has_lowercase", "has_digits", "has_special",
     "repeated_chars", "sequential_chars", "keyboard_pattern",
     "character_transitions", "breached"}

\* C4: whenever the lookup fails in any way, _check_hibp_breach returns
\* False and raises nothing: analyze_password returns a complete result
\* with breached = false, no 30-point penalty and no breach recommendation;
\* no failure of the oracle reaches the caller.
C4_LookupFailureIsNotBreached ==
    /\ pc # "raised"
    /\ (Done /\ LookupFailed) =>
          /\ DOMAIN analysis = AnalysisKeys
          /\ DOMAIN analysis.metrics = MetricsKeys
          /\ analysis.metrics.breached = FALSE
          /\ RecBreach \notin Range(analysis.recommendations)
          /\ analysis.strength_score
               = ClosedFormScore([analysis EXCEPT !.metrics.breached = FALSE])
          /\ Len(analysis.suggested_passwords) = 3
          /\ analysis.recommendations # << >>

\* A 429 answer whose body does hold the password's suffix.
C4_Witness ==
    /\ Done
    /\ remote.kind = "response"
    /\ remote.status_code # 200
    /\ \E k \in 1..Len(remote.lines) : remote.lines[k][1] = "SUFFIX"
    /\ analysis.strength_score > 0

\* C5 as stated: at most one query per 2-second cooldown window, one call
\* every 2 seconds: two successive queries are at least Period apart.
C5_QueriesOnePeriodApart ==
    queries[1].t >= 0 => queries[2].t - queries[1].t >= Period

\* C5, amended: at most one query is sent in each fixed window of the
\* limiter (Period seconds from its last reset; windows do not overlap); a
\* refused call sleeps to the end of the window and is admitted when it
\* wakes; a call that returned with an encodable password had its request
\* sent and answered.
C5_OneQueryPerFixedWindow ==
    /\ \A k \in 1..2 :
           queries[k].t >= 0 =>
               /\ queries[k].window <= queries[k].t
               /\ queries[k].t < queries[k].window + Period
    /\ queries[1].t >= 0 => queries[2].window >= queries[1].window + Period
    /\ pc = "sleeping" =>
           /\ wake = limiter.last_reset + Period
           /\ now >= wake => ~limits_wrapper(limiter, now).refused
    /\ (Done /\ encodable(call.password)) => remote.kind \in {"response", "ConnectionError"}

\* A call that was refused, slept, and sent its request on waking, less than
\* Period after the request before it.
C5_Witness ==
    /\ pc = "request"
    /\ queries[1].t >= 0
    /\ wake > 0
    /\ queries[2].t = wake
    /\ queries[2].t - queries[1].t < Period

\* C6: every analyze_password call eventually returns (the network call
\* has a bounded timeout; the only other blocking is the finite cooldown).
C6_EveryCallReturns == (pc \in {"sleeping", "request"}) ~> (pc = "done")

====
